---- MODULE Spec2Model ----
(***************************************************************************)
(* llmingest: the ignore-aware traversal and rendering pipeline            *)
(* (src/llmingest.py), with the ingest / main plumbing around it.          *)
(*                                                                         *)
(* Text is modelled character by character: a string is a sequence of      *)
(* one-character strings, a path is a sequence of names (pathlib's parts), *)
(* a file is its text.  The gitwildmatch matcher follows what              *)
(* pathspec.PathSpec.from_lines("gitwildmatch", ...) and match_file do for *)
(* the pattern syntax used here (literals, '*', '?', '**', a leading '/',  *)
(* a trailing '/', '!' and '#').                                           *)
(***************************************************************************)
EXTENDS Integers, Sequences, FiniteSets, TLC

\* ------------------------------------------------------------------ bounds

\* Most pattern lines a generated .gitignore holds.
MaxLines == 2
\* Runs of main over the same unchanged tree.
MaxRuns == 2

\* ----------------------------------------------------------------- strings

SLASH == "/"
NL == "\n"

RECURSIVE Flatten(_)
\* The concatenation of a sequence of strings.
Flatten(ss) == IF ss = <<>> THEN <<>> ELSE Head(ss) \o Flatten(Tail(ss))

RECURSIVE Join(_, _)
\* sep.join(ss)
Join(sep, ss) ==
  IF ss = <<>> THEN <<>>
  ELSE IF Len(ss) = 1 THEN ss[1]
  ELSE ss[1] \o sep \o Join(sep, Tail(ss))

RECURSIVE Split(_, _)
\* s.split(c): the pieces of s between the occurrences of the character c.
Split(s, c) ==
  IF \A i \in 1..Len(s) : s[i] # c THEN <<s>>
  ELSE LET i == CHOOSE k \in 1..Len(s) : s[k] = c /\ \A j \in 1..(k - 1) : s[j] # c
       IN  <<SubSeq(s, 1, i - 1)>> \o Split(SubSeq(s, i + 1, Len(s)), c)

\* str.splitlines(): the lines of a text, no empty last line after a final newline.
splitlines(text) ==
  IF text = <<>> THEN <<>>
  ELSE LET parts == Split(text, NL)
       IN  IF parts[Len(parts)] = <<>> THEN SubSeq(parts, 1, Len(parts) - 1) ELSE parts

StartsWith(s, p) == Len(s) >= Len(p) /\ SubSeq(s, 1, Len(p)) = p

RECURSIVE strip(_)
\* str.strip() for the blank character.
strip(s) ==
  IF s = <<>> THEN s
  ELSE IF s[1] = " " THEN strip(Tail(s))
  ELSE IF s[Len(s)] = " " THEN strip(SubSeq(s, 1, Len(s) - 1))
  ELSE s

\* The code point of each character that occurs in a file name.
Code ==
  "." :> 46 @@ "B" :> 66 @@ "a" :> 97 @@ "b" :> 98 @@ "c" :> 99 @@ "d" :> 100
  @@ "e" :> 101 @@ "f" :> 102 @@ "g" :> 103 @@ "i" :> 105 @@ "l" :> 108
  @@ "n" :> 110 @@ "o" :> 111 @@ "p" :> 112 @@ "r" :> 114 @@ "s" :> 115
  @@ "t" :> 116 @@ "u" :> 117 @@ "x" :> 120 @@ "y" :> 121

RECURSIVE StrLess(_, _)
\* Python's a < b on str: lexicographic by code point, a proper prefix is smaller.
StrLess(a, b) ==
  IF b = <<>> THEN FALSE
  ELSE IF a = <<>> THEN TRUE
  ELSE IF a[1] # b[1] THEN Code[a[1]] < Code[b[1]]
  ELSE StrLess(Tail(a), Tail(b))

RECURSIVE Insert(_, _)
Insert(x, sortedSeq) ==
  IF sortedSeq = <<>> THEN <<x>>
  ELSE IF StrLess(x, sortedSeq[1]) THEN <<x>> \o sortedSeq
  ELSE <<sortedSeq[1]>> \o Insert(x, Tail(sortedSeq))

\* sorted left out: the entries in the order the listing returned them.
sorted_listing_order(names) == names

RECURSIVE sorted(_)
\* sorted(names)
sorted(names) == IF names = <<>> THEN <<>> ELSE Insert(names[Len(names)], sorted(SubSeq(names, 1, Len(names) - 1)))

\* --------------------------------------------------------------- file names

N_git == <<".", "g", "i", "t">>
N_gitignore == <<".", "g", "i", "t", "i", "g", "n", "o", "r", "e">>
N_info == <<"i", "n", "f", "o">>
N_exclude == <<"e", "x", "c", "l", "u", "d", "e">>
N_apy == <<"a", ".", "p", "y">>

\* ------------------------------------------------- gitwildmatch (pathspec)

\* A compiled pattern is [include, regex]; include is "none" for a blank line or a
\* comment.  A regex is a sequence of atoms [k, c]:
\*   lit      the character c
\*   star     [^/]*          (a '*' inside a segment)
\*   one      [^/]           (a '?')
\*   seg      [^/]+          (a segment that is '*')
\*   lead     (?:.+/)?       (a leading '**')
\*   tail     /.*            (a trailing '**')
\*   tailopt  (?:/.*)?       (after the last segment)
\*   mid      (?:/.+)?       (an inner '**')
\*   anyplus  .+   anystar .*   (the '**/' override)
Atom(k) == [k |-> k, c |-> ""]
Lit(c) == [k |-> "lit", c |-> c]

RECURSIVE translate_segment_glob(_)
\* GitWildMatchPattern._translate_segment_glob for literals, '*' and '?'.
translate_segment_glob(seg) ==
  IF seg = <<>> THEN <<>>
  ELSE (IF seg[1] = "*" THEN <<Atom("star")>>
        ELSE IF seg[1] = "?" THEN <<Atom("one")>>
        ELSE <<Lit(seg[1])>>) \o translate_segment_glob(Tail(seg))

DSTAR == <<"*", "*">>

RECURSIVE CollapseDoubleStars(_)
\* Adjacent '**' segments collapse to one.
CollapseDoubleStars(segs) ==
  IF Len(segs) < 2 THEN segs
  ELSE IF segs[1] = DSTAR /\ segs[2] = DSTAR THEN CollapseDoubleStars(Tail(segs))
  ELSE <<segs[1]>> \o CollapseDoubleStars(Tail(segs))

\* The normalised segments of a pattern (after the '!' is removed).
NormalizeSegs(segs0) ==
  LET segs1 == CollapseDoubleStars(segs0)
      segs2 == IF segs1[1] = <<>> THEN Tail(segs1)
               ELSE IF Len(segs1) = 1 \/ (Len(segs1) = 2 /\ segs1[2] = <<>>)
                    THEN (IF segs1[1] # DSTAR THEN <<DSTAR>> \o segs1 ELSE segs1)
               ELSE segs1
  IN  IF Len(segs2) > 1 /\ segs2[Len(segs2)] = <<>>
      THEN [segs2 EXCEPT ![Len(segs2)] = DSTAR]
      ELSE segs2

RECURSIVE SegsToRegex(_, _, _)
\* The regex of normalised segments, from segment i on.
SegsToRegex(segs, i, need_slash) ==
  IF i > Len(segs) THEN <<>>
  ELSE LET seg == segs[i]
           end == Len(segs)
           sl == IF need_slash THEN <<Lit(SLASH)>> ELSE <<>>
       IN  IF seg = DSTAR
           THEN IF i = 1 /\ i = end THEN <<Atom("seg"), Atom("tailopt")>>
                ELSE IF i = 1 THEN <<Atom("lead")>> \o SegsToRegex(segs, i + 1, FALSE)
                ELSE IF i = end THEN <<Atom("tail")>>
                ELSE <<Atom("mid")>> \o SegsToRegex(segs, i + 1, TRUE)
           ELSE IF seg = <<"*">>
           THEN sl \o <<Atom("seg")>>
                \o (IF i = end THEN <<Atom("tailopt")>> ELSE <<>>)
                \o SegsToRegex(segs, i + 1, TRUE)
           ELSE sl \o translate_segment_glob(seg)
                \o (IF i = end THEN <<Atom("tailopt")>> ELSE <<>>)
                \o SegsToRegex(segs, i + 1, TRUE)

\* GitWildMatchPattern.pattern_to_regex: one line of an ignore file compiled.
\* "invalid" stands for GitWildMatchPatternError.
pattern_to_regex(line) ==
  LET pattern == strip(line)
  IN  IF pattern = <<>> \/ pattern[1] = "#" \/ pattern = <<SLASH>>
      THEN [include |-> "none", regex |-> <<>>]
      ELSE LET neg == pattern[1] = "!"
               body == IF neg THEN Tail(pattern) ELSE pattern
               segs0 == Split(body, SLASH)
               collapsed == CollapseDoubleStars(segs0)
               include == IF neg THEN "no" ELSE "yes"
           IN  IF Len(collapsed) = 2 /\ collapsed[1] = DSTAR /\ collapsed[2] = <<>>
               THEN [include |-> include,
                     regex |-> <<Atom("anyplus"), Lit(SLASH), Atom("anystar")>>]
               ELSE IF collapsed = <<<<>>>> \/ NormalizeSegs(segs0) = <<>>
               THEN [include |-> "invalid", regex |-> <<>>]
               ELSE [include |-> include,
                     regex |-> SegsToRegex(NormalizeSegs(segs0), 1, FALSE)]

RECURSIVE RegexMatch(_, _, _, _)
\* Whether atoms k.. of regex match all of s from position p on (re.match with ^ and $).
RegexMatch(regex, k, s, p) ==
  IF k > Len(regex) THEN p = Len(s) + 1
  ELSE LET a == regex[k]
           rest(q) == RegexMatch(regex, k + 1, s, q)
           NoSlash(from, to) == \A j \in from..to : s[j] # SLASH
           AtSlash == p <= Len(s) /\ s[p] = SLASH
       IN  CASE a.k = "lit" -> p <= Len(s) /\ s[p] = a.c /\ rest(p + 1)
             [] a.k = "one" -> p <= Len(s) /\ s[p] # SLASH /\ rest(p + 1)
             [] a.k = "star" -> \E q \in p..(Len(s) + 1) : NoSlash(p, q - 1) /\ rest(q)
             [] a.k = "seg" -> \E q \in (p + 1)..(Len(s) + 1) : NoSlash(p, q - 1) /\ rest(q)
             [] a.k = "lead" -> rest(p) \/ \E q \in (p + 2)..(Len(s) + 1) : s[q - 1] = SLASH /\ rest(q)
             [] a.k = "tail" -> AtSlash /\ \E q \in (p + 1)..(Len(s) + 1) : rest(q)
             [] a.k = "tailopt" -> rest(p) \/ (AtSlash /\ \E q \in (p + 1)..(Len(s) + 1) : rest(q))
             [] a.k = "mid" -> rest(p) \/ (AtSlash /\ \E q \in (p + 2)..(Len(s) + 1) : rest(q))
             [] a.k = "anyplus" -> \E q \in (p + 1)..(Len(s) + 1) : rest(q)
             [] a.k = "anystar" -> \E q \in p..(Len(s) + 1) : rest(q)

RECURSIVE LastMatch(_, _, _)
\* The include flag of the last of the first n patterns that matches the path,
\* "none" when none does.
LastMatch(patterns, n, path) ==
  IF n = 0 THEN "none"
  ELSE IF patterns[n].include \in {"yes", "no"} /\ RegexMatch(patterns[n].regex, 1, path, 1)
       THEN patterns[n].include
       ELSE LastMatch(patterns, n - 1, path)

NoSpec == <<>>

\* spec.match_file(path): the last pattern that matches decides.
match_file(spec, path) == LastMatch(spec, Len(spec), path) = "yes"

\* ------------------------------------------------------------- file system

\* A tree T below a root: dirs maps each directory (its path relative to the root,
\* a sequence of names) to its entries, files maps each regular file to its text,
\* unreadable holds the files that cannot be opened (read_text raises
\* PermissionError, an OSError), undecodable the files whose bytes do not decode
\* (read_text raises UnicodeDecodeError, a ValueError), unlistable the directories
\* whose listing raises OSError.
is_dir(fs, rel) == rel \in DOMAIN fs.dirs
is_file(fs, rel) == rel \in DOMAIN fs.files

Range(s) == {s[i] : i \in 1..Len(s)}

\* The orders of the elements of a sequence without repetitions.
Perms(s) ==
  {p \in [1..Len(s) -> Range(s)] : \A i, j \in 1..Len(s) : i # j => p[i] # p[j]}

\* os.listdir / os.scandir of a directory: what the call may return, the entries
\* in any order (the order is the file system's and may differ from call to call).
listdir(fs, rel) == Perms(fs.dirs[rel])

\* Path.relative_to(root_path): the parts below the root.
relative_to(path, root_path) == SubSeq(path, Len(root_path) + 1, Len(path))

\* PurePath.as_posix() of a relative path; "." for the empty one.
as_posix(rel) == IF rel = <<>> THEN <<".">> ELSE Join(<<SLASH>>, rel)

\* str() of an absolute path.
abs_str(path) == IF path = <<>> THEN <<SLASH>> ELSE Flatten([i \in 1..Len(path) |-> <<SLASH>> \o path[i]])

\* ------------------------------------------------------ _load_gitignore_patterns

\* PathSpec.from_lines("gitwildmatch", lines): empty lines are dropped, the others
\* compiled in order.
from_lines(lines) ==
  LET kept == SelectSeq(lines, LAMBDA l : l # <<>>)
  IN  [i \in 1..Len(kept) |-> pattern_to_regex(kept[i])]

GitignorePath == <<N_gitignore>>
ExcludePath == <<N_git, N_info, N_exclude>>

\* The pattern lines read from .gitignore and then .git/info/exclude.
PatternLines(fs) ==
  (IF is_file(fs, GitignorePath) THEN splitlines(fs.files[GitignorePath]) ELSE <<>>)
  \o (IF is_file(fs, ExcludePath) THEN splitlines(fs.files[ExcludePath]) ELSE <<>>)

\* What Path.read_text raises for a file: PermissionError when it cannot be
\* opened, UnicodeDecodeError when it opens and its bytes do not decode (the ignore
\* files are read in the locale's encoding, taken to be UTF-8), "none" otherwise.
ReadError(fs, rel) ==
  IF rel \in fs.unreadable THEN "PermissionError"
  ELSE IF rel \in fs.undecodable THEN "UnicodeDecodeError"
  ELSE "none"

\* Whether _load_gitignore_patterns raises: an ignore file that is_file() but whose
\* read_text() raises (no handler around it), or a pattern pathspec rejects.
LoadRaises(fs) ==
  \/ is_file(fs, GitignorePath) /\ ReadError(fs, GitignorePath) # "none"
  \/ is_file(fs, ExcludePath) /\ ReadError(fs, ExcludePath) # "none"
  \/ \E i \in 1..Len(PatternLines(fs)) :
        /\ PatternLines(fs)[i] # <<>>
        /\ pattern_to_regex(PatternLines(fs)[i]).include = "invalid"

\* What it raises then: the error of the first read that fails, .gitignore before
\* .git/info/exclude, and pathspec's error when both reads succeed.
LoadError(fs) ==
  IF is_file(fs, GitignorePath) /\ ReadError(fs, GitignorePath) # "none"
  THEN ReadError(fs, GitignorePath)
  ELSE IF is_file(fs, ExcludePath) /\ ReadError(fs, ExcludePath) # "none"
  THEN ReadError(fs, ExcludePath)
  ELSE "GitWildMatchPatternError"

\* The value _load_gitignore_patterns returns: None (NoSpec) without pattern lines.
_load_gitignore_patterns(fs) ==
  IF PatternLines(fs) = <<>> THEN NoSpec ELSE from_lines(PatternLines(fs))

\* "spec and spec.match_file(path)": a PathSpec without patterns is falsy.
Ignored(spec, path) == spec # NoSpec /\ match_file(spec, path)

\* --------------------------------------------------------- _build_ascii_tree

ELBOW == <<"U+2514", "U+2500", "U+2500", " ">>
TEE == <<"U+251C", "U+2500", "U+2500", " ">>
BLANK4 == <<" ", " ", " ", " ">>
PIPE4 == <<"U+2502", " ", " ", " ">>

\* The path tested against the rules in the tree walk: with a trailing slash for a
\* directory.
check_path(fs, rel) == IF is_dir(fs, rel) THEN as_posix(rel) \o <<SLASH>> ELSE as_posix(rel)

\* The entries of a directory that walk lists, from "entries", the sorted
\* listing: without '.git' and without what the rules match.
filtered(fs, spec, rel, entries) ==
  LET keep(entry) == entry # N_git /\ ~Ignored(spec, check_path(fs, rel \o <<entry>>))
  IN  SelectSeq(entries, keep)

\* "Last" decided before '.git' and the ignored entries are removed.
IsLast_unfiltered(fs, spec, entries, rel, i) ==
  filtered(fs, spec, rel, entries)[i] = entries[Len(entries)]

\* "i == len(filtered) - 1": the entry is the last of the entries listed.
IsLast(fs, spec, entries, rel, i) == i = Len(filtered(fs, spec, rel, entries))

RECURSIVE walk(_, _, _, _), walk_lines(_, _, _, _, _, _)
\* walk(dir_path, prefix): the line sequences the call may append, one for each
\* value of entries = sorted(os.listdir(dir_path)); nothing when the listing
\* raises OSError.
walk(fs, spec, rel, prefix) ==
  IF rel \in fs.unlistable THEN {<<>>}
  ELSE UNION {walk_lines(fs, spec, entries, rel, prefix, 1) :
                entries \in {sorted(listing) : listing \in listdir(fs, rel)}}

\* The second loop of walk, from the i-th filtered entry on: the entry's line, the
\* lines of the walk below it when it is a directory, then the entries after it.
walk_lines(fs, spec, entries, rel, prefix, i) ==
  LET fl == filtered(fs, spec, rel, entries)
  IN  IF i > Len(fl) THEN {<<>>}
      ELSE LET entry == fl[i]
               last == IsLast(fs, spec, entries, rel, i)
               connector == IF last THEN ELBOW ELSE TEE
               extension == IF last THEN BLANK4 ELSE PIPE4
           IN  {<<prefix \o connector \o entry>> \o below \o rest :
                  below \in (IF is_dir(fs, rel \o <<entry>>)
                             THEN walk(fs, spec, rel \o <<entry>>, prefix \o extension)
                             ELSE {<<>>}),
                  rest \in walk_lines(fs, spec, entries, rel, prefix, i + 1)}

\* The lines of the tree _build_ascii_tree may return: the root line, then a walk
\* from the root.
_build_ascii_tree(fs, spec, display_root) ==
  {<<display_root \o <<SLASH>>>> \o ls : ls \in walk(fs, spec, <<>>, <<>>)}

\* ------------------------------------------------------ _format_file_content

\* The length of SEPARATOR.
SeparatorLen == 50
SEPARATOR == [i \in 1..SeparatorLen |-> "="]
\* Three backticks (U+0060).
FENCE == <<"U+0060", "U+0060", "U+0060">>
FILE_HDR == <<"F", "I", "L", "E", ":", " ">>

L_text == <<"t", "e", "x", "t">>
L_python == <<"p", "y", "t", "h", "o", "n">>
L_c == <<"c">>

\* Path.suffix of a name: from the last dot on, when that dot is neither the first
\* nor the last character.
suffix(name) ==
  LET dots == {i \in 1..Len(name) : name[i] = "."}
  IN  IF dots = {} THEN <<>>
      ELSE LET i == CHOOSE k \in dots : \A j \in dots : j <= k
           IN  IF i = 1 \/ i = Len(name) THEN <<>> ELSE SubSeq(name, i, Len(name))

\* LANGUAGE_MAP, for the names and suffixes of the modelled trees.
LANGUAGE_MAP == (<<".", "p", "y">> :> L_python) @@ (<<".", "c">> :> L_c)

_get_language_identifier(name) ==
  IF name \in DOMAIN LANGUAGE_MAP THEN LANGUAGE_MAP[name]
  ELSE IF suffix(name) \in DOMAIN LANGUAGE_MAP THEN LANGUAGE_MAP[suffix(name)]
  ELSE L_text

None == <<>>

\* The block of one file, None when read_text raises (OSError and
\* UnicodeDecodeError are both handled).
_format_file_content(fs, rel) ==
  IF ReadError(fs, rel) # "none" THEN None
  ELSE SEPARATOR \o <<NL>>
       \o FILE_HDR \o as_posix(rel) \o <<NL>>
       \o SEPARATOR \o <<NL>>
       \o FENCE \o _get_language_identifier(rel[Len(rel)]) \o <<NL>>
       \o fs.files[rel] \o <<NL>>
       \o FENCE \o <<NL>>

\* --------------------------------------------- _process_directory: os.walk

\* Whether the loop body skips a directory: '.git' among the components of the
\* directory's path as os.walk yields it, the root's own components included.
SkipsDir(root_path, rel) == N_git \in Range(Split(abs_str(root_path \o rel), SLASH))

RECURSIVE FileBlocks(_, _, _, _, _)
\* The blocks the inner loop appends for filenames[i..] of one directory.
FileBlocks(fs, spec, rel, filenames, i) ==
  IF i > Len(filenames) THEN <<>>
  ELSE LET file_rel == rel \o <<filenames[i]>>
           formatted == _format_file_content(fs, file_rel)
       IN  (IF Ignored(spec, as_posix(file_rel)) \/ formatted = None THEN <<>> ELSE <<formatted>>)
           \o FileBlocks(fs, spec, rel, filenames, i + 1)

\* ------------------------------------------------------------------ inputs

S_http == <<"h", "t", "t", "p", ":", "/", "/", "h", "/", "r", ".", "g", "i", "t">>
S_ssh == <<"g", "i", "t", "@", "h", ":", "r", ".", "g", "i", "t">>
S_dir == <<"/", "w", "/", "r">>
S_indotgit == <<"/", "w", "/", ".", "g", "i", "t", "/", "r">>
S_file == <<"/", "w", "/", "f">>
S_missing == <<"/", "w", "/", "m">>

\* The names of the modelled tree.
D_s == <<"s">>
D_d == <<"d">>
F_b == <<"b">>
F_c == <<"c">>
F_t == <<"t">>

\* The text of an ignore file from its lines.
TextOf(lns) == Flatten([i \in 1..Len(lns) |-> lns[i] \o <<NL>>])

\* Stands for "the file does not exist" where the lines of an ignore file are given.
Absent == <<<<"absent">>>>

\* The tree
\*   t  s/{d/{c}  [.git]  t  b}  [.gitignore]  a.py  [.git/{c info/{[exclude]}} | .git]
\* (each directory's entries in some order); gi and ex are the lines of .gitignore and
\* of .git/info/exclude (or Absent), git is "none", "dir" or "file", subgit says
\* whether s/.git (a regular file, as in a submodule or a linked worktree) exists,
\* bad, und and unl are the files that cannot be opened, the files that cannot be
\* decoded and the directories that cannot be listed.
MkFS(gi, git, ex, subgit, bad, und, unl) ==
  LET rootEntries == <<F_t, D_s>>
                     \o (IF gi = Absent THEN <<>> ELSE <<N_gitignore>>)
                     \o <<N_apy>>
                     \o (IF git = "none" THEN <<>> ELSE <<N_git>>)
      sEntries == <<D_d>> \o (IF subgit THEN <<N_git>> ELSE <<>>) \o <<F_t, F_b>>
      gitDirs == IF git = "dir"
                 THEN (<<N_git>> :> <<F_c, N_info>>)
                      @@ (<<N_git, N_info>> :> (IF ex = Absent THEN <<>> ELSE <<N_exclude>>))
                 ELSE <<>>
      gitFiles == IF git = "dir"
                  THEN (<<N_git, F_c>> :> <<"x">>)
                       @@ (IF ex = Absent THEN <<>> ELSE (ExcludePath :> TextOf(ex)))
                  ELSE IF git = "file" THEN (<<N_git>> :> <<"g">>)
                  ELSE <<>>
  IN  [dirs |-> (<<>> :> rootEntries) @@ (<<D_s>> :> sEntries) @@ (<<D_s, D_d>> :> <<F_c>>)
                @@ gitDirs,
       files |-> (<<F_t>> :> <<"t">>) @@ (<<N_apy>> :> <<"x", "=", "1">>)
                 @@ (<<D_s, F_b>> :> <<"h", "i">>) @@ (<<D_s, F_t>> :> <<"t">>) @@ (<<D_s, D_d, F_c>> :> <<"c">>)
                 @@ (IF gi = Absent THEN <<>> ELSE (GitignorePath :> TextOf(gi)))
                 @@ (IF subgit THEN (<<D_s, N_git>> :> <<"g">>) ELSE <<>>)
                 @@ gitFiles,
       unreadable |-> bad,
       undecodable |-> und,
       unlistable |-> unl]

\* The pattern lines the generated ignore files draw from.
P_s_dir == <<"s", "/">>
P_not_sb == <<"!", "s", "/", "b">>
P_t == <<"t">>
P_s_star == <<"s", "/", "*">>
P_b == <<"b">>
P_star == <<"*">>
P_not_s_dir == <<"!", "s", "/">>
P_star_py == <<"*", ".", "p", "y">>
P_d_dir == <<"d", "/">>
P_s_t == <<"s", "/", "t">>
Pool == {P_s_dir, P_not_sb, P_t, P_s_star, P_b, P_star, P_not_s_dir, P_star_py, P_d_dir, P_s_t}

LineSeqs(n) == UNION {[1..k -> Pool] : k \in 0..n}

\* One run's inputs: the command line, what the source names, and the tree found
\* there.
Input(source, target, clone_ok, git_root, no_tree, fs) ==
  [source |-> source, target |-> target, clone_ok |-> clone_ok,
   git_root |-> git_root, no_tree |-> no_tree, fs |-> fs]

\* A local directory with generated .gitignore files.
IgnoreInputs ==
  {Input(S_dir, "dir", TRUE, "none", FALSE, MkFS(gi, "none", Absent, FALSE, {}, {}, {})) :
     gi \in {Absent} \cup LineSeqs(MaxLines)}

\* A local directory with a '.git' entry and .git/info/exclude.
GitInputs ==
  {Input(S_dir, "dir", TRUE, "self", FALSE, MkFS(gi, git, ex, subgit, {}, {}, {})) :
     gi \in {Absent, <<P_s_dir>>, <<P_b, P_star_py>>, <<P_star, P_not_s_dir>>},
     git \in {"dir", "file"},
     ex \in {Absent, <<<<"#", "x">>, <<>>, P_t>>, <<P_not_sb>>, <<<<"!">>>>},
     subgit \in BOOLEAN}

\* Files that cannot be opened or decoded and directories that cannot be listed.
ErrorInputs ==
  {Input(S_dir, "dir", TRUE, "none", FALSE, MkFS(gi, "none", Absent, FALSE, bu[1], bu[2], unl)) :
     gi \in {<<P_t>>, <<P_s_star, P_not_sb>>},
     bu \in {<<{}, {}>>, <<{<<N_apy>>}, {}>>, <<{}, {<<D_s, F_b>>}>>,
             <<{<<F_t>>}, {<<D_s, D_d, F_c>>}>>, <<{GitignorePath}, {}>>,
             <<{}, {GitignorePath}>>},
     unl \in {{}, {<<D_s>>}, {<<D_s, D_d>>}}}
  \cup
  {Input(S_dir, "dir", TRUE, "self", FALSE, MkFS(gi, "dir", <<P_t>>, FALSE, bu[1], bu[2], {})) :
     gi \in {Absent, <<P_b>>},
     bu \in {<<{ExcludePath}, {}>>, <<{}, {ExcludePath}>>, <<{ExcludePath}, {GitignorePath}>>}}

\* The sources: remote and local, found or not, cloned or not.
SourceInputs ==
  {Input(source, target, clone_ok, git_root, no_tree, MkFS(gi, "dir", Absent, FALSE, bu[1], bu[2], {})) :
     source \in {S_http, S_ssh, S_dir, S_indotgit, S_file, S_missing},
     target \in {"dir", "file", "missing"},
     clone_ok \in BOOLEAN,
     git_root \in {"none", "self", "parent"},
     no_tree \in BOOLEAN,
     gi \in {Absent, <<P_s_dir>>},
     bu \in {<<{}, {}>>, <<{GitignorePath}, {}>>, <<{}, {GitignorePath}>>}}

\* ------------------------------------------------------------------- state

VARIABLES
  env,            \* the run's inputs (never change)
  run,            \* the number of the run of main
  pc,             \* where main / ingest / _process_directory stands
  tmp_exists,     \* whether the directory mkdtemp made exists
  repo_path,      \* ingest's repo_path, as parts
  display,        \* the display name handed to _process_directory
  spec,           \* the PathSpec (NoSpec for None)
  lines,          \* _build_ascii_tree's lines
  stack,          \* the directories os.walk has still to yield, first on top
  content_blocks, \* _process_directory's content_blocks
  tree,           \* ingest's tree
  content,        \* ingest's content
  exc,            \* the exception in flight, "none" without one
  digest,         \* main's digest
  out,            \* the output file
  prev            \* how the previous run ended

vars == <<env, run, pc, tmp_exists, repo_path, display, spec, lines, stack,
          content_blocks, tree, content, exc, digest, out, prev>>

NoFile == [exists |-> FALSE, text |-> <<>>]
NoRun == [pc |-> "none", digest |-> <<>>]

\* A local source names what target says; a remote one is not looked up.
WellFormed(i) ==
  /\ (i.source \in {S_http, S_ssh}) => (i.target = "dir" /\ i.git_root = "none")
  /\ (i.source \in {S_dir, S_indotgit}) => (i.target = "dir" /\ i.clone_ok)
  /\ (i.source = S_file) => (i.target = "file" /\ i.clone_ok /\ i.git_root = "none")
  /\ (i.source = S_missing) => (i.target = "missing" /\ i.clone_ok /\ i.git_root = "none")

Inputs == IgnoreInputs \cup GitInputs \cup ErrorInputs \cup {i \in SourceInputs : WellFormed(i)}

Locals0 ==
  /\ pc = "ingest"
  /\ tmp_exists = FALSE
  /\ repo_path = <<>>
  /\ display = <<>>
  /\ spec = NoSpec
  /\ lines = <<>>
  /\ stack = <<>>
  /\ content_blocks = <<>>
  /\ tree = <<>>
  /\ content = <<>>
  /\ exc = "none"
  /\ digest = <<>>

Init ==
  /\ env \in Inputs
  /\ run = 1
  /\ Locals0
  /\ out = NoFile
  /\ prev = NoRun

\* ------------------------------------------------------------------ ingest

is_url(source) == StartsWith(source, <<"h", "t", "t", "p">>) \/ StartsWith(source, <<"g", "i", "t", "@">>)

\* The parts of Path(source): the pieces between slashes, empty ones dropped.
PathParts(source) == SelectSeq(Split(source, SLASH), LAMBDA x : x # <<>>)

\* Path.name and Path.stem
name_of(parts) == IF parts = <<>> THEN <<>> ELSE parts[Len(parts)]
stem(name) == SubSeq(name, 1, Len(name) - Len(suffix(name)))

\* The directory tempfile.mkdtemp(prefix="gitingest_") makes.
TempDir == <<<<"t", "m", "p">>, <<"g", "i", "t", "i", "n", "g", "e", "s", "t", "_">>>>

\* The display name of a local directory: its own name outside a repository or at
\* a repository's root, "<root name>/<relative path>" below one.
_get_contextual_display_path(path, git_root) ==
  IF git_root = "parent" /\ Len(path) >= 2
  THEN path[Len(path) - 1] \o <<SLASH>> \o as_posix(<<path[Len(path)]>>)
  ELSE name_of(path)

\* Where control goes when _process_directory raises or returns.
AfterProcess == IF is_url(env.source) THEN "finally" ELSE IF exc' = "none" THEN "return" ELSE "raised"

\* ingest, remote source: tempfile.mkdtemp
Mkdtemp ==
  /\ pc = "ingest" /\ is_url(env.source)
  /\ tmp_exists' = TRUE
  /\ pc' = "clone"
  /\ UNCHANGED <<env, run, repo_path, display, spec, lines, stack, content_blocks,
                 tree, content, exc, digest, out, prev>>

\* ingest, remote source: git.Repo.clone_from, which raises when the clone fails
Clone ==
  /\ pc = "clone"
  /\ IF env.clone_ok
     THEN /\ repo_path' = TempDir
          /\ display' = stem(name_of(PathParts(env.source)))
          /\ pc' = "load"
          /\ exc' = exc
     ELSE /\ exc' = "GitCommandError"
          /\ pc' = "finally"
          /\ UNCHANGED <<repo_path, display>>
  /\ UNCHANGED <<env, run, tmp_exists, spec, lines, stack, content_blocks, tree,
                 content, digest, out, prev>>

\* ingest, local source: resolve, the is_dir check, the display path
ResolveLocal ==
  /\ pc = "ingest" /\ ~is_url(env.source)
  /\ repo_path' = PathParts(env.source)
  /\ IF env.target # "dir"
     THEN exc' = "ValueError" /\ pc' = "raised" /\ display' = display
     ELSE /\ display' = _get_contextual_display_path(PathParts(env.source), env.git_root)
          /\ pc' = "load"
          /\ exc' = exc
  /\ UNCHANGED <<env, run, tmp_exists, spec, lines, stack, content_blocks, tree,
                 content, digest, out, prev>>

\* _process_directory: spec = _load_gitignore_patterns(root_path)
LoadPatterns ==
  /\ pc = "load"
  /\ IF LoadRaises(env.fs)
     THEN /\ exc' = LoadError(env.fs)
          /\ pc' = AfterProcess
          /\ spec' = spec
     ELSE /\ spec' = _load_gitignore_patterns(env.fs)
          /\ pc' = "tree"
          /\ exc' = exc
  /\ UNCHANGED <<env, run, tmp_exists, repo_path, display, lines, stack,
                 content_blocks, tree, content, digest, out, prev>>

\* _process_directory: tree_str = _build_ascii_tree(...), then os.walk starts
BuildTree ==
  /\ pc = "tree"
  /\ lines' \in _build_ascii_tree(env.fs, spec, display)
  /\ stack' = <<<<>>>>
  /\ pc' = "walk"
  /\ UNCHANGED <<env, run, tmp_exists, repo_path, display, spec, content_blocks,
                 tree, content, exc, digest, out, prev>>

\* One iteration of "for dirpath, _, filenames in os.walk(root_path)": the next
\* directory is listed, its files are formatted unless the directory is skipped,
\* and its subdirectories are walked next, in the order listed.
WalkDir ==
  /\ pc = "walk" /\ stack # <<>>
  /\ LET rel == Head(stack)
     IN  IF rel \in env.fs.unlistable
         THEN stack' = Tail(stack) /\ content_blocks' = content_blocks
         ELSE \E entries \in listdir(env.fs, rel) :
                LET dirnames == SelectSeq(entries, LAMBDA e : is_dir(env.fs, rel \o <<e>>))
                    filenames == SelectSeq(entries, LAMBDA e : ~is_dir(env.fs, rel \o <<e>>))
                IN  /\ content_blocks' = content_blocks
                         \o (IF SkipsDir(repo_path, rel) THEN <<>>
                             ELSE FileBlocks(env.fs, spec, rel, filenames, 1))
                    /\ stack' = [i \in 1..Len(dirnames) |-> rel \o <<dirnames[i]>>] \o Tail(stack)
  /\ UNCHANGED <<env, run, pc, tmp_exists, repo_path, display, spec, lines, tree,
                 content, exc, digest, out, prev>>

\* _process_directory: return tree_str, "\n".join(content_blocks)
ProcessReturn ==
  /\ pc = "walk" /\ stack = <<>>
  /\ tree' = Join(<<NL>>, lines)
  /\ content' = Join(<<NL>>, content_blocks)
  /\ exc' = exc
  /\ pc' = AfterProcess
  /\ UNCHANGED <<env, run, tmp_exists, repo_path, display, spec, lines, stack,
                 content_blocks, digest, out, prev>>

\* The rmtree after the try block instead of in a finally: skipped when the
\* block raises.
Finally_only_on_success ==
  /\ pc = "finally"
  /\ tmp_exists' = (exc # "none")
  /\ pc' = IF exc = "none" THEN "return" ELSE "raised"
  /\ UNCHANGED <<env, run, repo_path, display, spec, lines, stack, content_blocks,
                 tree, content, exc, digest, out, prev>>

\* ingest, remote source: finally: shutil.rmtree(temp_dir)
Finally ==
  /\ pc = "finally"
  /\ tmp_exists' = FALSE
  /\ pc' = IF exc = "none" THEN "return" ELSE "raised"
  /\ UNCHANGED <<env, run, repo_path, display, spec, lines, stack, content_blocks,
                 tree, content, exc, digest, out, prev>>

S_header_tree == <<"D", "i", "r", "e", "c", "t", "o", "r", "y", " ", "s", "t", "r", "u", "c", "t", "u", "r", "e", ":">>
S_header_files == <<"F", "i", "l", "e", " ", "c", "o", "n", "t", "e", "n", "t", "s", ":">>

\* The digest ingest returns.
Digest(tree_str, content_str) ==
  S_header_tree \o <<NL>> \o tree_str \o <<NL, NL>> \o S_header_files \o <<NL, NL>> \o content_str

\* ingest: the return statement
Return ==
  /\ pc = "return"
  /\ digest' = Digest(tree, content)
  /\ pc' = "open"
  /\ UNCHANGED <<env, run, tmp_exists, repo_path, display, spec, lines, stack,
                 content_blocks, tree, content, exc, out, prev>>

\* -------------------------------------------------------------------- main

\* "\n".join(digest.split("\n\n", 1)[1:]): what follows the first blank line, the
\* empty string when there is none.
DropTree(d) ==
  LET cuts == {i \in 1..(Len(d) - 1) : d[i] = NL /\ d[i + 1] = NL}
  IN  IF cuts = {} THEN <<>>
      ELSE LET i == CHOOSE k \in cuts : \A j \in cuts : k <= j
           IN  SubSeq(d, i + 2, Len(d))

\* main: the --no-tree cut, then open(args.output, "w")
Open ==
  /\ pc = "open"
  /\ digest' = IF env.no_tree THEN DropTree(digest) ELSE digest
  /\ out' = [exists |-> TRUE, text |-> <<>>]
  /\ pc' = "write"
  /\ UNCHANGED <<env, run, tmp_exists, repo_path, display, spec, lines, stack,
                 content_blocks, tree, content, exc, prev>>

\* main: f.write(digest)
Write ==
  /\ pc = "write"
  /\ out' = [exists |-> TRUE, text |-> digest]
  /\ pc' = "done"
  /\ UNCHANGED <<env, run, tmp_exists, repo_path, display, spec, lines, stack,
                 content_blocks, tree, content, exc, digest, prev>>

\* The error handler writing the message to the output file.
Error_writes_output ==
  /\ pc = "raised"
  /\ pc' = "exit2"
  /\ out' = [exists |-> TRUE, text |-> <<>>]
  /\ UNCHANGED <<env, run, tmp_exists, repo_path, display, spec, lines, stack,
                 content_blocks, tree, content, exc, digest, prev>>

\* main: except Exception as e: parser.error(str(e)), which exits with status 2
Error ==
  /\ pc = "raised"
  /\ pc' = "exit2"
  /\ UNCHANGED <<env, run, tmp_exists, repo_path, display, spec, lines, stack,
                 content_blocks, tree, content, exc, digest, out, prev>>

\* The program is run again on the same unchanged tree.
Rerun ==
  /\ pc \in {"done", "exit2"}
  /\ run < MaxRuns
  /\ run' = run + 1
  /\ prev' = [pc |-> pc, digest |-> digest]
  /\ pc' = "ingest"
  /\ repo_path' = <<>>
  /\ display' = <<>>
  /\ spec' = NoSpec
  /\ lines' = <<>>
  /\ stack' = <<>>
  /\ content_blocks' = <<>>
  /\ tree' = <<>>
  /\ content' = <<>>
  /\ exc' = "none"
  /\ digest' = <<>>
  /\ UNCHANGED <<env, tmp_exists, out>>

Next ==
  \/ Mkdtemp \/ Clone \/ ResolveLocal
  \/ LoadPatterns \/ BuildTree \/ WalkDir \/ ProcessReturn
  \/ Finally \/ Return
  \/ Open \/ Write \/ Error
  \/ Rerun

Spec == Init /\ [][Next]_vars

\* ------------------------------------------------------ reading the outputs

\* _process_directory has just returned its pair to ingest.
Returned == exc = "none" /\ pc \in {"finally", "return"}

RECURSIVE PrefixDepth(_)
\* The number of leading indentation segments of a tree line.
PrefixDepth(line) ==
  IF Len(line) >= 4 /\ SubSeq(line, 1, 4) \in {PIPE4, BLANK4}
  THEN 1 + PrefixDepth(SubSeq(line, 5, Len(line)))
  ELSE 0

\* The depth of line i of a tree: 0 for the root line, 1 for the root's entries.
Depth(ls, i) == IF i = 1 THEN 0 ELSE PrefixDepth(ls[i]) + 1
PrefixSeg(line, k) == SubSeq(line, 4 * (k - 1) + 1, 4 * k)
Connector(line) == SubSeq(line, 4 * PrefixDepth(line) + 1, 4 * PrefixDepth(line) + 4)
EntryName(line) == SubSeq(line, 4 * PrefixDepth(line) + 5, Len(line))

\* Every entry line has a connector and a name and lies at most one level below
\* the line before it.
WellNested(ls) ==
  \A i \in 2..Len(ls) :
    /\ Connector(ls[i]) \in {TEE, ELBOW}
    /\ EntryName(ls[i]) # <<>>
    /\ Depth(ls, i) <= Depth(ls, i - 1) + 1

\* The line of the directory that line i is listed under.
Parent(ls, i) ==
  CHOOSE j \in 1..(i - 1) :
    /\ Depth(ls, j) = Depth(ls, i) - 1
    /\ \A k \in (j + 1)..(i - 1) : Depth(ls, k) >= Depth(ls, i)

RECURSIVE TreePath(_, _)
\* The path, relative to the root, that line i of a tree stands for.
TreePath(ls, i) == IF i = 1 THEN <<>> ELSE TreePath(ls, Parent(ls, i)) \o <<EntryName(ls[i])>>

TreePaths(ls) == {TreePath(ls, i) : i \in 2..Len(ls)}

\* The path in the header line of a block, <<>> when the block has none.
HeaderPath(block) ==
  LET ls == Split(block, NL)
  IN  IF Len(ls) >= 2 /\ ls[1] = SEPARATOR /\ StartsWith(ls[2], FILE_HDR)
      THEN SubSeq(ls[2], Len(FILE_HDR) + 1, Len(ls[2]))
      ELSE <<>>

\* The blocks of the content section whose header names the file.
BlocksOf(blocks, rel) == {i \in 1..Len(blocks) : HeaderPath(blocks[i]) = as_posix(rel)}

InTree(rel) == WellNested(lines) /\ rel \in TreePaths(lines)
InContent(rel) == BlocksOf(content_blocks, rel) # {}

Files == DOMAIN env.fs.files

\* read_text raises for the file: it cannot be opened or cannot be decoded.
CannotRead(rel) == ReadError(env.fs, rel) # "none"

\* The directories on the path of a file, the root excluded.
Ancestors(rel) == {SubSeq(rel, 1, k) : k \in 1..(Len(rel) - 1)}

\* The rule set matches the file itself, or a directory on its path tested with a
\* trailing slash.
RuleMatches(rel) ==
  \/ match_file(spec, as_posix(rel))
  \/ \E d \in Ancestors(rel) : match_file(spec, as_posix(d) \o <<SLASH>>)

\* (C1) A file the rule set matches, itself or through a directory on its path,
\* has no entry in the tree and no block in the content section.
C1_IgnoredInNeitherOutput ==
  Returned =>
    \A f \in Files : RuleMatches(f) => ~InTree(f) /\ ~InContent(f)

\* The file is excluded by some pattern and re-included by a later negation: a
\* pattern without '!' matches its path and the last pattern that matches has one.
Reincluded(rel) ==
  /\ \E i \in 1..Len(spec) :
       spec[i].include = "yes" /\ RegexMatch(spec[i].regex, 1, as_posix(rel), 1)
  /\ LastMatch(spec, Len(spec), as_posix(rel)) = "no"

\* Every directory on the way to the file, the root included, can be listed.
Listable(rel) == \A k \in 0..(Len(rel) - 1) : SubSeq(rel, 1, k) \notin env.fs.unlistable

\* No '.git' among the components of the root's path and of the file's path.
NoDotGit(rel) == N_git \notin Range(repo_path \o rel)

\* (C2) A file excluded by a pattern and re-included by a later
\* negation has an entry in the tree and a block in the content section, also
\* below a directory that an earlier pattern excludes.  (Stated for the files
\* both walks can reach and read.)
C2_ReincludedInBothOutputs ==
  Returned =>
    \A f \in Files :
      (Reincluded(f) /\ ~CannotRead(f) /\ Listable(f) /\ NoDotGit(f))
        => InTree(f) /\ InContent(f)

\* What the code does with a re-included file, in every run: the file has its
\* block in the content section exactly when it can be read, its directories can be listed and no component of the
\* path of its directory, the root's path included, is '.git'; it has an entry in
\* the tree exactly when its directories can be listed, no component of its
\* relative path is '.git' and no directory on its path is matched by the rule
\* set when tested with a trailing slash.
ReincludedContentAndUnprunedTree ==
  Returned =>
    \A f \in Files :
      Reincluded(f) =>
        /\ InContent(f) <=>
             /\ ~CannotRead(f)
             /\ Listable(f)
             /\ N_git \notin Range(repo_path \o SubSeq(f, 1, Len(f) - 1))
        /\ InTree(f) <=>
             /\ Listable(f)
             /\ N_git \notin Range(f)
             /\ \A d \in Ancestors(f) : ~match_file(spec, as_posix(d) \o <<SLASH>>)

\* Reached: a re-included file that is in both outputs (no directory on its path
\* is pruned).
ReincludedInBoth ==
  /\ Returned
  /\ \E f \in Files : Reincluded(f) /\ InTree(f) /\ InContent(f)

\* (C3) Two runs on the same unchanged tree end with the same digest, whatever
\* order the listings return the entries in.
C3_RunsAgree ==
  (run >= 2 /\ pc = "done" /\ prev.pc = "done") => digest = prev.digest

\* (C4) A file that the rule set does not match, that is not inside a '.git'
\* directory below the root and that can be read has exactly one block, headed by
\* its path relative to the root, whatever the root's own path is.  (Stated for
\* the files below directories that can be listed.)
C4_OneBlockPerIncludedFile ==
  Returned =>
    \A f \in Files :
      (/\ ~match_file(spec, as_posix(f))
       /\ N_git \notin Range(SubSeq(f, 1, Len(f) - 1))
       /\ ~CannotRead(f)
       /\ Listable(f))
        => Cardinality(BlocksOf(content_blocks, f)) = 1

\* _process_directory raised.
ProcessRaised == exc \in {"PermissionError", "UnicodeDecodeError", "GitWildMatchPatternError"}

\* (C5) With a file that is not ignored and cannot be read, _process_directory
\* does not raise, the file has no block, and every other file that is not
\* ignored and can be read (and reached) has its block.
C5_UnreadableFileIsSkipped ==
  \A f \in Files :
    (CannotRead(f) /\ ~RuleMatches(f)) =>
      /\ ~ProcessRaised
      /\ Returned =>
           /\ ~InContent(f)
           /\ \A g \in Files \ {f} :
                (/\ ~RuleMatches(g)
                 /\ ~CannotRead(g)
                 /\ Listable(g)
                 /\ NoDotGit(SubSeq(g, 1, Len(g) - 1)))
                  => InContent(g)

\* _build_ascii_tree has just returned the tree; os.walk has not yielded yet.
TreeBuilt == pc = "walk" /\ stack = <<<<>>>> /\ content_blocks = <<>>

\* The entries of a directory that are neither '.git' nor matched by the rules.
Visible(rel) ==
  IF rel \in env.fs.unlistable THEN {}
  ELSE {e \in Range(env.fs.dirs[rel]) :
          e # N_git /\ ~match_file(spec, as_posix(rel \o <<e>>)
                                         \o (IF is_dir(env.fs, rel \o <<e>>) THEN <<SLASH>> ELSE <<>>))}

\* The lines listed directly under line i.
Children(ls, i) == {j \in (i + 1)..Len(ls) : Depth(ls, j) = Depth(ls, i) + 1 /\ Parent(ls, j) = i}

\* (C6) Under every directory of the tree the direct children are its listed
\* entries, files and subdirectories together, in strictly increasing order of
\* name, and the children of a subdirectory follow it at once, before its next
\* sibling.
C6_SortedDepthFirst ==
  TreeBuilt =>
    /\ WellNested(lines)
    /\ \A i \in 1..Len(lines) :
         /\ is_dir(env.fs, TreePath(lines, i)) \/ is_file(env.fs, TreePath(lines, i))
         /\ {EntryName(lines[j]) : j \in Children(lines, i)}
              = (IF is_dir(env.fs, TreePath(lines, i)) THEN Visible(TreePath(lines, i)) ELSE {})
         /\ \A j, k \in Children(lines, i) :
              j < k => StrLess(EntryName(lines[j]), EntryName(lines[k]))
         /\ (Children(lines, i) # {}) => (i + 1) \in Children(lines, i)

\* A subdirectory with children, listed between two files of its directory.
C6_Witness ==
  /\ TreeBuilt
  /\ WellNested(lines)
  /\ \E i, j, k \in Children(lines, 1) :
       /\ i < j /\ j < k
       /\ is_file(env.fs, TreePath(lines, i))
       /\ is_dir(env.fs, TreePath(lines, j))
       /\ is_file(env.fs, TreePath(lines, k))
       /\ Cardinality(Children(lines, j)) >= 2

\* The greatest of a non-empty set of names.
Greatest(names) == CHOOSE n \in names : \A m \in names \ {n} : StrLess(m, n)

\* The entry is the last of the listed entries of its directory.
LastListed(rel) ==
  rel[Len(rel)] = Greatest(Visible(SubSeq(rel, 1, Len(rel) - 1)))

\* (C7) For a remote source the temporary clone directory does not exist once
\* ingest has returned or raised.
C7_TempDirRemoved ==
  (is_url(env.source) /\ pc \in {"return", "open", "write", "done", "raised", "exit2"})
    => ~tmp_exists

\* ingest raised out of _process_directory after a successful clone, and the
\* directory is gone.
C7_Witness ==
  /\ is_url(env.source)
  /\ pc = "raised"
  /\ ProcessRaised
  /\ repo_path = TempDir
  /\ ~tmp_exists

\* (C8) When ingest raises, the output file is neither created nor written; the
\* file is opened only after ingest has returned the complete digest.
C8_NoOutputOnFailure ==
  /\ [](exc # "none" => ~out.exists)
  /\ [][out' # out =>
          /\ exc = "none"
          /\ \/ pc = "open" /\ digest = Digest(tree, content)
             \/ pc = "write"]_vars

\* main has reported a failed clone and there is no output file.
C8_Witness ==
  /\ pc = "exit2"
  /\ exc = "GitCommandError"
  /\ ~out.exists

\* (C9) Every entry line is prefix + connector + name: the connector is the
\* last-sibling one exactly when the entry is the last listed entry of its
\* directory, the prefix has one segment per ancestor directory below the root,
\* outermost first, blank exactly when that ancestor was the last listed entry of
\* its own directory; every directory with listed entries has exactly one child
\* with the last-sibling connector.
C9_ConnectorsAndPrefixes ==
  TreeBuilt =>
    /\ lines[1] = display \o <<SLASH>>
    /\ WellNested(lines)
    /\ \A i \in 2..Len(lines) :
         LET rel == TreePath(lines, i)
         IN  /\ lines[i] = SubSeq(lines[i], 1, 4 * (Len(rel) - 1)) \o Connector(lines[i]) \o rel[Len(rel)]
             /\ Connector(lines[i]) = ELBOW <=> LastListed(rel)
             /\ Connector(lines[i]) = TEE <=> ~LastListed(rel)
             /\ PrefixDepth(lines[i]) = Len(rel) - 1
             /\ \A k \in 1..(Len(rel) - 1) :
                  /\ PrefixSeg(lines[i], k) = BLANK4 <=> LastListed(SubSeq(rel, 1, k))
                  /\ PrefixSeg(lines[i], k) = PIPE4 <=> ~LastListed(SubSeq(rel, 1, k))
    /\ \A i \in 1..Len(lines) :
         (is_dir(env.fs, TreePath(lines, i)) /\ Visible(TreePath(lines, i)) # {})
           => Cardinality({j \in Children(lines, i) : Connector(lines[j]) = ELBOW}) = 1

\* A line two levels down whose prefix mixes both segments, in a tree whose last
\* root entry in name order is ignored.
C9_Witness ==
  /\ TreeBuilt
  /\ WellNested(lines)
  /\ \E i \in 2..Len(lines) :
       /\ PrefixDepth(lines[i]) = 2
       /\ PrefixSeg(lines[i], 1) = PIPE4
       /\ PrefixSeg(lines[i], 2) = BLANK4
       /\ Connector(lines[i]) = ELBOW
  /\ \E i \in 2..Len(lines) :
       LET rel == TreePath(lines, i)
           dir == SubSeq(rel, 1, Len(rel) - 1)
       IN  /\ Connector(lines[i]) = ELBOW
           /\ \E e \in Range(env.fs.dirs[dir]) : StrLess(rel[Len(rel)], e) /\ e \notin Visible(dir)

\* (C10) Every file with a block in the content section is an entry of the tree,
\* at its relative path.
C10_ContentWithinTree ==
  Returned => \A f \in Files : InContent(f) => InTree(f)

====
